---- MODULE Spec2Model ----
(***************************************************************************)
(* A model of the rental-house scraper:                                    *)
(*   - helpers/addresses.py   extract_zipcode (postal-code normalisation)  *)
(*   - distance/calculators.py calculate_distance_addrs (distance cache)   *)
(*   - scraper/scraper_core.py Scraper.scrape_page, get_next_button_el,    *)
(*     click_next_button, scrape_all_pages, store_data, append_final_data  *)
(*                                                                         *)
(* Text is modelled as a sequence of one-character strings, so that the    *)
(* regular expression of extract_zipcode and the str((a, b)) key of the    *)
(* distance cache are computed character by character.                     *)
(* Python's None is the empty sequence <<>>; a present value x is <<x>>    *)
(* (for text: the text itself, which the code never returns empty).        *)
(***************************************************************************)
EXTENDS Integers, Sequences, FiniteSets, TLC

VARIABLES
    \* ---- extract_zipcode applied to one input (SpecZip)
    zin,            \* the argument s
    zout,           \* the returned zipcode, <<>> for None
    zpc,            \* "call" before the call, "done" after it
    \* ---- Scraper.scrape_page applied to one page (SpecPage)
    pg_dom,         \* the ad elements the driver finds on the page
    pg_mapping,     \* self.ad_obj_mapping: the requested fields
    pg_out,         \* what scrape_page did: [raised, result]
    pg_pc,          \* "call" / "done"
    \* ---- calculate_distance_addrs with its cache file (SpecDist)
    cache,          \* the cache csv: [exists, rows], rows of [route, distance]
    call,           \* per caller: the call in progress or just finished
    written,        \* history: the calls, as made, that appended a row
    ncalls,         \* calls started so far
    \* ---- the geocoder requests of calculate_distance_addrs in time (SpecGeo)
    now,            \* the clock, in ticks
    gpc,            \* "idle", "addr1" (before line 79), "addr2" (before line 80)
    gcalls,         \* calls of calculate_distance_addrs that reached line 79
    sent,           \* history: the times at which a geocoder request went out
    \* ---- Scraper.scrape_all_pages (Spec)
    pc,             \* "start", "page", "click", "done", "stored", "failed"
    debug_mode,     \* self.debug_mode
    url,            \* self.driver.current_url
    dom,            \* the page the driver shows: [ads, next_button]
    current_page,   \* scrape_all_pages: current_page
    all_results,    \* scrape_all_pages: all_results
    pages_scraped,  \* number of scrape_page calls that returned
    extracted,      \* history: per page scraped, the ad elements it was read from
    current_retry,  \* click_next_button: current_retry of the innermost frame
    max_retries,    \* click_next_button: max_retries of the innermost frame
    wait_time,      \* click_next_button: wait_time of the innermost frame
    call_max_retries, \* max_retries as passed to the outermost click_next_button
    call_wait_time, \* wait_time as passed to the outermost click_next_button
    attempts,       \* attempts made by the click_next_button call in progress
    clicks,         \* wait_el.click() activations made by that call
    error,          \* the exception that aborted the scrape, "none" if none
    files,          \* the raw, cleaned, enriched and backup csv of this run
    dataset         \* scrape_data.csv: [exists, rows]

zipVars  == <<zin, zout, zpc>>
pageVars == <<pg_dom, pg_mapping, pg_out, pg_pc>>
distVars == <<cache, call, written, ncalls>>
geoVars  == <<now, gpc, gcalls, sent>>
walkVars == <<pc, debug_mode, url, dom, current_page, all_results, pages_scraped,
              extracted, current_retry, max_retries, wait_time, call_max_retries,
              call_wait_time, attempts, clicks, error, files, dataset>>
vars     == <<zipVars, pageVars, distVars, geoVars, walkVars>>

None == <<>>

-----------------------------------------------------------------------------
(* Text                                                                    *)

Digits == {"0", "1", "2", "3", "4", "5", "6", "7", "8", "9"}
Uppers == {"A", "B", "C", "D", "E", "F", "G", "H", "I", "J", "K", "L", "M",
           "N", "O", "P", "Q", "R", "S", "T", "U", "V", "W", "X", "Y", "Z"}
Spaces == {" ", "\t", "\n"}

\* the number of digits and of letters the pattern asks for
ZipDigits  == 4
ZipLetters == 2

AllIn(s, lo, hi, class) == \A k \in lo..hi : s[k] \in class

\* the length of the run of whitespace that starts at position k
RECURSIVE SpaceRun(_, _)
SpaceRun(s, k) == IF k <= Len(s) /\ s[k] \in Spaces THEN 1 + SpaceRun(s, k + 1) ELSE 0

\* re: [0-9]{4}\s*?[A-Z]{2} matches at position i, with j characters of
\* whitespace: the lazy \s*? grows until two letters follow, which is after
\* the whole run of whitespace or never
MatchAt(s, i, j) ==
    /\ i + ZipDigits + j + ZipLetters - 1 <= Len(s)
    /\ AllIn(s, i, i + ZipDigits - 1, Digits)
    /\ j = SpaceRun(s, i + ZipDigits)
    /\ AllIn(s, i + ZipDigits + j, i + ZipDigits + j + ZipLetters - 1, Uppers)

\* re.findall(regex_str, s)[0]: the leftmost match at or after position i, as
\* text; None when regex_found is empty
RECURSIVE FirstMatch(_, _)
FirstMatch(s, i) ==
    IF i + ZipDigits + ZipLetters - 1 > Len(s) THEN None
    ELSE LET j == SpaceRun(s, i + ZipDigits)
         IN  IF MatchAt(s, i, j)
             THEN SubSeq(s, i, i + ZipDigits + j + ZipLetters - 1)
             ELSE FirstMatch(s, i + 1)

\* re.sub(r"\s+", "", t)
RECURSIVE StripSpaces(_)
StripSpaces(t) ==
    IF t = <<>> THEN <<>>
    ELSE IF Head(t) \in Spaces THEN StripSpaces(Tail(t))
    ELSE <<Head(t)>> \o StripSpaces(Tail(t))

\* a plausible slip in extract_zipcode: the spaces are not removed
extract_zipcode_keepspaces(s) == FirstMatch(s, 1)

\* lines 39-49; a match is never empty, so None is the empty text
extract_zipcode(s) ==
    LET regex_found == FirstMatch(s, 1)
    IN  IF regex_found # None THEN StripSpaces(regex_found) ELSE None

-----------------------------------------------------------------------------
(* SpecZip: extract_zipcode on every text up to MaxZipLen characters       *)

MaxZipLen == 7
ZipAlphabet == {"1", "2", "A", " ", "x"}
ZipInputs == UNION {[1..n -> ZipAlphabet] : n \in 0..MaxZipLen}

ZipIdle == /\ zin = <<>> /\ zout = None /\ zpc = "idle"

ZipInit == /\ zin \in ZipInputs /\ zout = None /\ zpc = "call"

ZipCall ==
    /\ zpc = "call"
    /\ zout' = extract_zipcode(zin)
    /\ zpc' = "done"
    /\ UNCHANGED <<zin, pageVars, distVars, geoVars, walkVars>>


-----------------------------------------------------------------------------
(* Scraper.scrape_page                                                     *)
(*                                                                         *)
(* An ad element of the page is [text, sub]: text says whether el.text is  *)
(* non-empty, sub[f] is what the selector of field f finds inside it:      *)
(* <<v>> for a sub-element whose text (href for ad_url) is v, None when    *)
(* find_element_by_xpath raises NoSuchElementException.                    *)

Fields == {"ad_title", "ad_url", "price", "address"}

\* ad_els = [el for el in ad_els if el.text != ""]
NonEmptyAds(ads) == SelectSeq(ads, LAMBDA el : el.text)

\* another design of lines 212-220: None only for the element that lacks the
\* sub-element
FieldColumnPerElement(ad_els, f) == [i \in 1..Len(ad_els) |-> ad_els[i].sub[f]]

\* one field of result_dict: the texts, or [None] * len(ad_els) when some
\* element lacks the sub-element
FieldColumn(ad_els, f) ==
    IF \E i \in 1..Len(ad_els) : ad_els[i].sub[f] = None
    THEN [i \in 1..Len(ad_els) |-> None]
    ELSE [i \in 1..Len(ad_els) |-> ad_els[i].sub[f]]

ColumnLengths(result_dict) == {Len(result_dict[f]) : f \in DOMAIN result_dict}

\* a plausible slip in the check: an empty result passes
SameLengthsOrEmpty(result_dict) == Cardinality(ColumnLengths(result_dict)) <= 1

\* assert len(set(check_values)) == 1
SameLengths(result_dict) == Cardinality(ColumnLengths(result_dict)) = 1

NoResult == [f \in {} |-> <<>>]

\* a plausible slip: the check for zero ad elements is missing
scrape_page_nocheck(ads, mapping) ==
    LET result_dict == [f \in mapping |-> FieldColumn(NonEmptyAds(ads), f)]
    IN  IF ~SameLengths(result_dict)
        THEN [raised |-> "AssertionError", result |-> NoResult]
        ELSE [raised |-> "none", result |-> result_dict]

\* lines 203-225
scrape_page(ads, mapping) ==
    LET ad_els      == NonEmptyAds(ads)
        result_dict == [f \in mapping |-> FieldColumn(ad_els, f)]
    IN  IF Len(ad_els) = 0
        THEN [raised |-> "RuntimeError", result |-> NoResult]
        ELSE IF ~SameLengths(result_dict)
        THEN [raised |-> "AssertionError", result |-> NoResult]
        ELSE [raised |-> "none", result |-> result_dict]

-----------------------------------------------------------------------------
(* SpecPage: scrape_page on every page of up to MaxPageAds ad elements and *)
(* every mapping over Fields                                               *)

MaxPageAds == 2

TitleA == <<"a">>
TitleB == <<"b">>
UrlU == <<"u">>
UrlV == <<"v">>
PriceText == <<"9", "5">>
AddrStreet == <<"x">>

PageAdElements ==
    {[text |-> t, sub |-> [ad_title |-> a, ad_url |-> <<UrlU>>, price |-> p,
                           address |-> <<AddrStreet>>]] :
        t \in BOOLEAN, a \in {None, <<TitleA>>, <<TitleB>>},
        p \in {None, <<PriceText>>}}

PageDoms == UNION {[1..n -> PageAdElements] : n \in 0..MaxPageAds}

PageIdle ==
    /\ pg_dom = <<>> /\ pg_mapping = {} /\ pg_pc = "idle"
    /\ pg_out = [raised |-> "none", result |-> NoResult]

PageInit ==
    /\ pg_dom \in PageDoms
    /\ pg_mapping \in SUBSET Fields
    /\ pg_pc = "call"
    /\ pg_out = [raised |-> "none", result |-> NoResult]

PageCall ==
    /\ pg_pc = "call"
    /\ pg_out' = scrape_page(pg_dom, pg_mapping)
    /\ pg_pc' = "done"
    /\ UNCHANGED <<pg_dom, pg_mapping, zipVars, distVars, geoVars, walkVars>>

-----------------------------------------------------------------------------
(* distance/calculators.py: calculate_distance_addrs                       *)
(*                                                                         *)
(* The cache csv is [exists, rows]; a row is [route, distance], route the  *)
(* text that to_csv writes for the tuple (addr1, addr2), that is           *)
(* str((addr1, addr2)), and that read_csv reads back as a string.          *)
(* A geocoder answer is None or <<l>>, l a location; the distance of two   *)
(* locations stands for the kilometres geopy computes. The number written  *)
(* to the csv is taken to be read back unchanged.                          *)

\* repr of a str without quotes or backslashes, as the addresses here are
Repr(a) == <<"'">> \o a \o <<"'">>

\* str((addr1, addr2))
TupleStr(addr1, addr2) == <<"(">> \o Repr(addr1) \o <<",", " ">> \o Repr(addr2) \o <<")">>

\* a plausible slip: lines 51-54 are missing
SimplifyNot(addr) == addr

\* lines 51-54: simplify an address to its zipcode if it has one
Simplify(addr) ==
    LET zipcode == extract_zipcode(addr)
    IN  IF zipcode # None THEN zipcode ELSE addr

\* line 71: the rows whose route is the pair in either order
RelRows(rows, addr1, addr2) ==
    SelectSeq(rows, LAMBDA r : r.route = TupleStr(addr1, addr2)
                               \/ r.route = TupleStr(addr2, addr1))

\* a plausible slip: only the order (addr1, addr2) is looked up
CacheHitOneOrder(c, addr1, addr2) ==
    /\ Len(c.rows) > 0
    /\ Len(SelectSeq(c.rows, LAMBDA r : r.route = TupleStr(addr1, addr2))) > 0

\* lines 70-72: the cache as read holds the pair
CacheHit(c, addr1, addr2) ==
    /\ Len(c.rows) > 0
    /\ Len(RelRows(c.rows, addr1, addr2)) > 0

\* line 73: rel_row.iloc[0]['distance']
CachedDistance(c, addr1, addr2) == <<RelRows(c.rows, addr1, addr2)[1].distance>>

\* lines 61-67: the cache after the read, created empty when it was absent
CacheRead(c) == IF c.exists THEN c ELSE [exists |-> TRUE, rows |-> <<>>]

Abs(n) == IF n < 0 THEN -n ELSE n

\* calculate_distance, lines 11-29
calculate_distance(geo1, geo2) == Abs(geo1[1] - geo2[1])

\* another design of lines 90-92: the file is looked at again before the write
CacheAppendIfAbsent(c, addr1, addr2, distance) ==
    IF CacheHit(c, addr1, addr2) THEN c
    ELSE [exists |-> TRUE,
          rows |-> Append(c.rows, [route |-> TupleStr(addr1, addr2),
                                   distance |-> distance])]

\* a plausible slip in line 92: mode 'w' for 'a+'
CacheAppendOverwrite(c, addr1, addr2, distance) ==
    [exists |-> TRUE,
     rows |-> <<[route |-> TupleStr(addr1, addr2), distance |-> distance]>>]

\* lines 90-92: to_csv(..., mode='a+', header=False)
CacheAppend(c, addr1, addr2, distance) ==
    [exists |-> TRUE,
     rows |-> Append(c.rows, [route |-> TupleStr(addr1, addr2), distance |-> distance])]

Callers == {"w1", "w2"}

IdleCall ==
    [pc |-> "idle", arg1 |-> <<>>, arg2 |-> <<>>, cached |-> FALSE,
     addr1 |-> <<>>, addr2 |-> <<>>, addr1_geo |-> None, addr2_geo |-> None,
     result |-> None, geocoded |-> 0]

\* lines 47-73 for caller p: up to the cache lookup
DistLookup(p, a1, a2, cached) ==
    LET addr1 == Simplify(a1)
        addr2 == Simplify(a2)
        c     == CacheRead(cache)
        begun == [pc |-> "resolve", arg1 |-> a1, arg2 |-> a2, cached |-> cached,
                  addr1 |-> addr1, addr2 |-> addr2, addr1_geo |-> None,
                  addr2_geo |-> None, result |-> None, geocoded |-> 0]
    IN  /\ call[p].pc \in {"idle", "done"}
        /\ ncalls' = ncalls + 1
        /\ cache' = IF cached THEN c ELSE cache
        /\ IF cached /\ CacheHit(c, addr1, addr2)
           THEN call' = [call EXCEPT ![p] =
                            [begun EXCEPT !.pc = "done",
                                          !.result = CachedDistance(c, addr1, addr2)]]
           ELSE call' = [call EXCEPT ![p] = begun]
        /\ UNCHANGED <<written, zipVars, pageVars, geoVars, walkVars>>

\* a plausible slip in line 82: and for or
UnresolvedBoth(g1, g2) == g1 = None /\ g2 = None

\* line 82: if addr1_geo is None or addr2_geo is None
Unresolved(g1, g2) == g1 = None \/ g2 = None

\* lines 75-94 for caller p: both addresses are geocoded, the answers are g1, g2.
\* calculate_distance reads geo.latitude, an AttributeError on None.
DistResolve(p, g1, g2) ==
    LET me == [call[p] EXCEPT !.addr1_geo = g1, !.addr2_geo = g2, !.geocoded = 2]
        distance == calculate_distance(g1, g2)
    IN  /\ call[p].pc = "resolve"
        /\ IF Unresolved(g1, g2)
           THEN /\ call' = [call EXCEPT ![p] = [me EXCEPT !.pc = "done", !.result = None]]
                /\ UNCHANGED <<cache, written>>
           ELSE IF g1 = None \/ g2 = None
           THEN /\ call' = [call EXCEPT ![p] = [me EXCEPT !.pc = "raised"]]
                /\ UNCHANGED <<cache, written>>
           ELSE /\ call' = [call EXCEPT ![p] =
                               [me EXCEPT !.pc = "done", !.result = <<distance>>]]
                /\ cache' = IF me.cached
                            THEN CacheAppend(cache, me.addr1, me.addr2, distance)
                            ELSE cache
                /\ written' = IF me.cached
                              THEN written \cup {<<me.arg1, me.arg2, distance>>}
                              ELSE written
        /\ UNCHANGED <<ncalls, zipVars, pageVars, geoVars, walkVars>>

\* calculate_distance_addrs as one call, lines 47-94; geo[q] is the geocoder's
\* answer to the query for address q. Returns the result and the cache file.
calculate_distance_addrs(c, a1, a2, cached, geo) ==
    LET addr1 == Simplify(a1[1])
        addr2 == Simplify(a2[1])
        cr    == IF cached THEN CacheRead(c) ELSE c
        distance == calculate_distance(geo[addr1], geo[addr2])
    IN  IF a1 = None \/ a2 = None THEN [result |-> None, cache |-> c]
        ELSE IF cached /\ CacheHit(cr, addr1, addr2)
        THEN [result |-> CachedDistance(cr, addr1, addr2), cache |-> cr]
        ELSE IF Unresolved(geo[addr1], geo[addr2])
        THEN [result |-> None, cache |-> cr]
        ELSE [result |-> <<distance>>,
              cache |-> IF cached THEN CacheAppend(cr, addr1, addr2, distance) ELSE cr]

-----------------------------------------------------------------------------
(* scraper/scraper_core.py: the Scraper                                    *)

\* a URL is [netloc, page]: urlparse(url).netloc and the result page it shows
RootUrl == "www.site.nl"
OtherUrl == "www.other.nl"
website_url == [netloc |-> RootUrl, page |-> 1]

\* urlparse(new_url).netloc
Netloc(u) == u.netloc

\* defaults of click_next_button(current_retry=0, max_retries=5, wait_time=2)
DefaultMaxRetries == 5
DefaultWaitTime == 2

\* a plausible slip: debug mode is not looked at
get_next_button_el_nodebug(d, debug) == d.next_button

\* get_next_button_el, lines 136-151: TRUE when an element is returned
get_next_button_el(d, debug) ==
    IF ~d.next_button THEN FALSE
    ELSE IF debug THEN FALSE
    ELSE TRUE

\* a plausible slip in line 349: the page's values replace the earlier ones
UpdateResultsOverwrite(all, current) ==
    [key \in DOMAIN all \cup DOMAIN current |->
        IF key \in DOMAIN current THEN current[key] ELSE all[key]]

\* lines 348-349: all_results[key] = all_results.get(key, []) + current_results[key]
UpdateResults(all, current) ==
    [key \in DOMAIN all \cup DOMAIN current |->
        IF key \in DOMAIN current
        THEN (IF key \in DOMAIN all THEN all[key] ELSE <<>>) \o current[key]
        ELSE all[key]]

\* a plausible slip: the check of lines 180-181 is missing
ClickFailedSameOnly(old_url, new_url) == new_url = old_url

\* a plausible slip in line 176: != for ==
ClickFailedInverted(old_url, new_url) ==
    \/ new_url # old_url
    \/ Netloc(new_url) # RootUrl

\* lines 176-181: the two RuntimeErrors after a click
ClickFailed(old_url, new_url) ==
    \/ new_url = old_url
    \/ Netloc(new_url) # RootUrl

\* a plausible slip in line 188: the test is always true
MayRetryAlways(retry, maxr) == retry + 1 <= retry + 1

\* line 188: if current_retry + 1 <= max_retries
MayRetry(retry, maxr) == retry + 1 <= maxr

-----------------------------------------------------------------------------
(* SpecDist: one caller makes up to MaxCalls calls of                      *)
(* calculate_distance_addrs, over a pool of addresses                      *)

MaxCalls == 2

AddrStation  == <<"x", "x">>
AddrZip1     == <<"1", "1", "1", "1", "A", "A">>
AddrZip1Text == <<"1", "1", "1", "1", " ", "A", "A", " ", "x">>
AddrZip2     == <<"2", "2", "2", "2", "A", "A">>
AddrTwoZips  == <<"2", "2", "2", "2", "A", "A", " ", "1", "1", "1", "1", "A", "A">>

AddrPool == {AddrStation, AddrZip1, AddrZip1Text, AddrZip2, AddrTwoZips}

Locations == {1, 2}
GeoAnswers == {None} \cup {<<l>> : l \in Locations}

DistIdle ==
    /\ cache = [exists |-> FALSE, rows |-> <<>>]
    /\ call = [p \in Callers |-> IdleCall]
    /\ written = {}
    /\ ncalls = 0

DistInit == DistIdle

\* the single writer
Writer == "w1"

Lookup ==
    \E a1 \in AddrPool, a2 \in AddrPool, cached \in BOOLEAN :
        ncalls < MaxCalls /\ DistLookup(Writer, a1, a2, cached)

Resolve == \E g1 \in GeoAnswers, g2 \in GeoAnswers : DistResolve(Writer, g1, g2)

-----------------------------------------------------------------------------
(* SpecRace: two processes call calculate_distance_addrs with the same     *)
(* cache file, their steps interleaved                                     *)

RacePool == {AddrStation, AddrZip1, AddrZip1Text}

RaceLookup ==
    \E p \in Callers, a1 \in RacePool, a2 \in RacePool :
        ncalls < MaxCalls /\ DistLookup(p, a1, a2, TRUE)

RaceResolve ==
    \E p \in Callers, g1 \in GeoAnswers, g2 \in GeoAnswers : DistResolve(p, g1, g2)

-----------------------------------------------------------------------------
(* Scraper.store_data and what it calls                                    *)

\* pd.to_numeric(text, errors='coerce'): the number a digit text denotes
DigitValue(ch) ==
    CASE ch = "0" -> 0 [] ch = "1" -> 1 [] ch = "2" -> 2 [] ch = "3" -> 3
      [] ch = "4" -> 4 [] ch = "5" -> 5 [] ch = "6" -> 6 [] ch = "7" -> 7
      [] ch = "8" -> 8 [] ch = "9" -> 9

RECURSIVE DigitsValue(_)
DigitsValue(t) ==
    IF t = <<>> THEN 0
    ELSE 10 * DigitsValue(SubSeq(t, 1, Len(t) - 1)) + DigitValue(t[Len(t)])

\* clean_data, lines 254: None and text that is no number become NaN (None)
to_numeric(v) ==
    IF v = None THEN None
    ELSE IF v[1] # <<>> /\ AllIn(v[1], 1, Len(v[1]), Digits) THEN <<DigitsValue(v[1])>>
    ELSE None

\* pd.DataFrame.from_dict(dic) and clean_data: row i of the cleaned frame
CleanRow(dic, i) ==
    [ad_title |-> dic["ad_title"][i], ad_url |-> dic["ad_url"][i],
     address |-> dic["address"][i], price |-> to_numeric(dic["price"][i])]

FrameLength(dic) == Len(dic["ad_title"])

\* enrich_data, lines 271-276: the distance of each row's address, in row order,
\* through the cache: rows i..n are still to do, done are the enriched rows so
\* far and c the cache file by now. Returns the enriched rows and the cache file.
RECURSIVE EnrichRows(_, _, _, _, _, _)
EnrichRows(dic, i, n, done, c, geo) ==
    IF i > n THEN [rows |-> done, cache |-> c]
    ELSE LET row  == CleanRow(dic, i)
             dist == calculate_distance_addrs(c, <<AddrStation>>, row.address, TRUE, geo)
         IN  EnrichRows(dic, i + 1, n,
                        Append(done, [ad_title |-> row.ad_title, ad_url |-> row.ad_url,
                                      address |-> row.address, price |-> row.price,
                                      dist_to_station |-> dist.result,
                                      website |-> RootUrl, scrape_date |-> "now"]),
                        dist.cache, geo)

\* to_csv then read_csv of a text cell: None and the empty text come back as NaN
TextCell(v) == IF v = None \/ v[1] = <<>> THEN None ELSE v

\* pd.read_csv of what to_csv wrote
read_csv(rows) ==
    [i \in 1..Len(rows) |->
        [rows[i] EXCEPT !.ad_title = TextCell(@), !.ad_url = TextCell(@),
                        !.address = TextCell(@)]]

\* rel_cols = ["ad_title", "price", "ad_url", "website"]
RelCols(row) == <<row.ad_title, row.price, row.ad_url, row.website>>

\* drop_duplicates(subset=rel_cols): the first row of each key is kept
RECURSIVE drop_duplicates(_)
drop_duplicates(rows) ==
    IF rows = <<>> THEN <<>>
    ELSE LET init == SubSeq(rows, 1, Len(rows) - 1)
             last == rows[Len(rows)]
         IN  IF \E i \in 1..Len(init) : RelCols(init[i]) = RelCols(last)
             THEN drop_duplicates(init)
             ELSE Append(drop_duplicates(init), last)

\* append_final_data, lines 287-299: the dataset file after the call
append_final_data(ds, df) ==
    IF ds.exists
    THEN [exists |-> TRUE, rows |-> drop_duplicates(read_csv(ds.rows) \o df)]
    ELSE [exists |-> TRUE, rows |-> df]

-----------------------------------------------------------------------------
(* Spec: scrape_all_pages on a site of up to MaxPages result pages of up   *)
(* to MaxAds ad elements each                                              *)

MaxPages == 2
MaxAds == 1

\* a listing with every sub-element, and one whose price sub-element is absent
AdA ==
    [text |-> TRUE,
     sub |-> [ad_title |-> <<TitleA>>, ad_url |-> <<UrlU>>, price |-> <<PriceText>>,
              address |-> <<AddrZip1Text>>]]
AdB ==
    [text |-> TRUE,
     sub |-> [ad_title |-> <<TitleB>>, ad_url |-> <<UrlV>>, price |-> None,
              address |-> <<AddrStreet>>]]

WalkAds == {AdA, AdB}

\* the pages the driver can show as result page k
WalkDoms(k) ==
    {[ads |-> a, next_button |-> b] :
        a \in UNION {[1..n -> WalkAds] : n \in 0..MaxAds},
        b \in IF k < MaxPages THEN BOOLEAN ELSE {FALSE}}

NoDom == [ads |-> <<>>, next_button |-> FALSE]
NoFiles == [raw |-> None, cleaned |-> None, enriched |-> None, backup |-> None]

\* a row an earlier run left in scrape_data.csv
OldRow ==
    [ad_title |-> <<TitleA>>, ad_url |-> <<UrlU>>, address |-> <<AddrZip1Text>>,
     price |-> <<95>>, dist_to_station |-> None, website |-> RootUrl,
     scrape_date |-> "earlier"]

\* the geocoder during a run: the queries it is asked are the station, the
\* street and the zipcode; it finds a query's location or answers None
WalkQueries == {AddrStation, AddrStreet, AddrZip1}
WalkLocation(q) == IF q = AddrStation THEN 1 ELSE IF q = AddrStreet THEN 2 ELSE 3
WalkGeo == {geo \in [WalkQueries -> {None, <<1>>, <<2>>, <<3>>}] :
               \A q \in WalkQueries : geo[q] \in {None, <<WalkLocation(q)>>}}

WalkIdle ==
    /\ pc = "idle" /\ debug_mode = FALSE /\ url = website_url /\ dom = NoDom
    /\ current_page = 0 /\ all_results = NoResult /\ pages_scraped = 0
    /\ extracted = <<>>
    /\ current_retry = 0 /\ max_retries = DefaultMaxRetries
    /\ wait_time = DefaultWaitTime /\ attempts = 0 /\ clicks = 0
    /\ call_max_retries = DefaultMaxRetries /\ call_wait_time = DefaultWaitTime
    /\ error = "none" /\ files = NoFiles
    /\ dataset = [exists |-> FALSE, rows |-> <<>>]

\* after Scraper.__init__
WalkInit ==
    /\ pc = "start"
    /\ debug_mode \in BOOLEAN
    /\ url = [netloc |-> "about:blank", page |-> 0]
    /\ dom = NoDom
    /\ current_page = 0 /\ all_results = NoResult /\ pages_scraped = 0
    /\ extracted = <<>>
    /\ current_retry = 0 /\ max_retries = DefaultMaxRetries
    /\ wait_time = DefaultWaitTime /\ attempts = 0 /\ clicks = 0
    /\ call_max_retries = DefaultMaxRetries /\ call_wait_time = DefaultWaitTime
    /\ error = "none" /\ files = NoFiles
    /\ dataset \in {[exists |-> FALSE, rows |-> <<>>],
                    [exists |-> TRUE, rows |-> <<OldRow>>]}

clickVars == <<current_retry, max_retries, wait_time, call_max_retries,
               call_wait_time, attempts, clicks>>

\* lines 331-335: self.driver.get(self.website_url)
Start ==
    /\ pc = "start"
    /\ url' = website_url
    /\ \E d \in WalkDoms(1) : dom' = d
    /\ all_results' = NoResult
    /\ current_page' = 0
    /\ pc' = "page"
    /\ extracted' = <<>>
    /\ UNCHANGED <<debug_mode, pages_scraped, clickVars, error, files, dataset,
                   distVars, geoVars, zipVars, pageVars>>

\* lines 336-353: one pass of the loop body up to the call of click_next_button
PageCycle ==
    LET current_results == scrape_page(dom.ads, Fields)
    IN  /\ pc = "page"
        /\ IF current_results.raised # "none"
           THEN /\ pc' = "failed"
                /\ error' = current_results.raised
                /\ UNCHANGED <<all_results, pages_scraped, extracted, clickVars>>
           ELSE /\ all_results' = UpdateResults(all_results, current_results.result)
                /\ pages_scraped' = pages_scraped + 1
                /\ extracted' = Append(extracted, NonEmptyAds(dom.ads))
                /\ error' = error
                /\ IF get_next_button_el(dom, debug_mode)
                   THEN /\ pc' = "click"
                        /\ current_retry' = 0
                        /\ max_retries' = DefaultMaxRetries
                        /\ wait_time' = DefaultWaitTime
                        /\ call_max_retries' = DefaultMaxRetries
                        /\ call_wait_time' = DefaultWaitTime
                        /\ attempts' = 0
                        /\ clicks' = 0
                   ELSE /\ pc' = "done"
                        /\ UNCHANGED clickVars
        /\ UNCHANGED <<debug_mode, url, dom, current_page, files, dataset, distVars,
                       geoVars, zipVars, pageVars>>

\* what one attempt can meet: the control never becomes clickable
\* (TimeoutException), or it is clicked and the url stays, leaves the site, or
\* moves to the next result page
ClickOutcomes == {"timeout", "same", "offsite", "next"}

UrlAfter(old_url, outcome) ==
    CASE outcome = "offsite" -> [netloc |-> OtherUrl, page |-> old_url.page]
      [] outcome = "next"    -> [netloc |-> RootUrl, page |-> old_url.page + 1]
      [] OTHER               -> old_url

\* click_next_button, lines 164-194: one attempt (one frame of the recursion),
\* and on success line 355 of the caller
ClickAttempt(outcome) ==
    LET old_url == url
        new_url == UrlAfter(old_url, outcome)
        failed  == outcome = "timeout" \/ ClickFailed(old_url, new_url)
    IN  /\ pc = "click"
        /\ url' = new_url
        /\ attempts' = attempts + 1
        /\ clicks' = IF outcome = "timeout" THEN clicks ELSE clicks + 1
        /\ IF ~failed
           THEN /\ pc' = "page"
                /\ current_page' = current_page + 1
                /\ \E d \in WalkDoms(new_url.page) : dom' = d
                /\ UNCHANGED <<current_retry, max_retries, wait_time, error>>
           ELSE IF MayRetry(current_retry, max_retries)
           THEN \* line 189: the recursive call passes current_retry only
                /\ current_retry' = current_retry + 1
                /\ max_retries' = DefaultMaxRetries
                /\ wait_time' = DefaultWaitTime
                /\ UNCHANGED <<pc, current_page, dom, error>>
           ELSE /\ pc' = "failed"
                /\ error' = "MaxRetries"
                /\ UNCHANGED <<current_retry, max_retries, wait_time, current_page,
                               dom>>
        /\ UNCHANGED <<debug_mode, all_results, pages_scraped, extracted,
                       call_max_retries, call_wait_time, files, dataset,
                       distVars, geoVars, zipVars, pageVars>>

\* a plausible slip: line 359 indented into the loop, after the next-control
\* was found
StoreReachedInLoop(p) == p \in {"done", "click"}

\* line 359 comes after the loop: store_data is reached when the loop was left
StoreReached(p) == p = "done"

\* line 359 and store_data, lines 309-322
StoreData(geo) ==
    LET n        == FrameLength(all_results)
        raw      == [i \in 1..n |-> [f \in DOMAIN all_results |-> all_results[f][i]]]
        cleaned  == [i \in 1..n |-> CleanRow(all_results, i)]
        enriched == EnrichRows(all_results, 1, n, <<>>, cache, geo)
    IN  /\ StoreReached(pc)
        /\ files' = [raw |-> <<raw>>, cleaned |-> <<cleaned>>,
                     enriched |-> <<enriched.rows>>,
                     backup |-> IF dataset.exists THEN <<dataset.rows>> ELSE None]
        /\ cache' = enriched.cache
        /\ dataset' = append_final_data(dataset, enriched.rows)
        /\ pc' = "stored"
        /\ UNCHANGED <<debug_mode, url, dom, current_page, all_results, pages_scraped,
                       extracted, clickVars, error, call, written, ncalls, geoVars,
                       zipVars, pageVars>>

Click == \E outcome \in ClickOutcomes : ClickAttempt(outcome)

-----------------------------------------------------------------------------
(* SpecClick: click_next_button called with max_retries and wait_time of   *)
(* the caller's choice, on a page that has a next-control                  *)

MaxArgRetries == 3
MaxArgWait == 3

ClickInit ==
    /\ pc = "click"
    /\ debug_mode = FALSE
    /\ url = website_url
    /\ dom \in {d \in WalkDoms(1) : d.next_button}
    /\ current_page = 0 /\ all_results = NoResult /\ pages_scraped = 0
    /\ extracted = <<>>
    /\ current_retry = 0
    /\ max_retries \in 1..MaxArgRetries
    /\ wait_time \in 1..MaxArgWait
    /\ call_max_retries = max_retries /\ call_wait_time = wait_time
    /\ attempts = 0 /\ clicks = 0
    /\ error = "none" /\ files = NoFiles
    /\ dataset = [exists |-> FALSE, rows |-> <<>>]

Store == \E geo \in WalkGeo : StoreData(geo)

-----------------------------------------------------------------------------
(* helpers/addresses.py: parse_address_str and the geocoder's RateLimiter   *)
(*                                                                         *)
(* Time is counted in ticks, TicksPerSecond of them to the second. Between *)
(* two steps of the program any amount of time may pass (Tick). A geopy    *)
(* RateLimiter remembers the time of the last call it let through          *)
(* (_last_call, None for a new limiter) and sleeps before a call until     *)
(* min_delay_seconds have passed since then.                               *)

TicksPerSecond == 2
MaxTime == 4
MaxGeoCalls == 2

\* line 71: RateLimiter(geolocator.geocode, min_delay_seconds=1)
min_delay_seconds == 1

\* a RateLimiter just constructed
NewRateLimiter == None

\* RateLimiter.__call__ at time t: the ticks it sleeps before the request
RateLimiterSleep(last_call, t) ==
    IF last_call = None THEN 0
    ELSE LET wait == min_delay_seconds * TicksPerSecond - (t - last_call[1])
         IN  IF wait > 0 THEN wait ELSE 0

\* parse_address_str called at time t, lines 64-76: the time at which its
\* geocoder request goes out. Line 71 builds the limiter of this one call.
parse_address_str(t) ==
    LET geocode == NewRateLimiter
    IN  t + RateLimiterSleep(geocode, t)

GeoIdle == /\ now = 0 /\ gpc = "idle" /\ gcalls = 0 /\ sent = <<>>

GeoInit == GeoIdle

\* time passes
Tick ==
    /\ now < MaxTime
    /\ now' = now + 1
    /\ UNCHANGED <<gpc, gcalls, sent, zipVars, pageVars, distVars, walkVars>>

\* calculate_distance_addrs, lines 47-77: a call that does not return from the
\* cache, as enrich_data makes one per row
GeoBegin ==
    /\ gpc = "idle"
    /\ gcalls < MaxGeoCalls
    /\ gcalls' = gcalls + 1
    /\ gpc' = "addr1"
    /\ UNCHANGED <<now, sent, zipVars, pageVars, distVars, walkVars>>

\* calculate_distance_addrs, lines 79 and 80: one parse_address_str call
GeoParse ==
    /\ gpc \in {"addr1", "addr2"}
    /\ now' = parse_address_str(now)
    /\ sent' = Append(sent, now')
    /\ gpc' = IF gpc = "addr1" THEN "addr2" ELSE "idle"
    /\ UNCHANGED <<gcalls, zipVars, pageVars, distVars, walkVars>>

-----------------------------------------------------------------------------
(* The specifications                                                      *)

Init == WalkInit /\ ZipIdle /\ PageIdle /\ DistIdle /\ GeoIdle
Next == Start \/ PageCycle \/ Click \/ Store
Spec == Init /\ [][Next]_vars

\* the program keeps running: a step of the walk that can be taken is taken
\* (every wait in the code is bounded: WebDriverWait(driver, 20),
\* time.sleep(wait_time))
SpecLive ==
    Init /\ [][Next]_vars /\ WF_vars(Start) /\ WF_vars(PageCycle) /\ WF_vars(Click)

InitZip == ZipInit /\ PageIdle /\ DistIdle /\ GeoIdle /\ WalkIdle
NextZip == ZipCall
SpecZip == InitZip /\ [][NextZip]_vars

InitPage == PageInit /\ ZipIdle /\ DistIdle /\ GeoIdle /\ WalkIdle
NextPage == PageCall
SpecPage == InitPage /\ [][NextPage]_vars

InitDist == DistInit /\ ZipIdle /\ PageIdle /\ GeoIdle /\ WalkIdle
NextDist == Lookup \/ Resolve
SpecDist == InitDist /\ [][NextDist]_vars

InitRace == InitDist
NextRace == RaceLookup \/ RaceResolve
SpecRace == InitRace /\ [][NextRace]_vars

InitClick == ClickInit /\ ZipIdle /\ PageIdle /\ DistIdle /\ GeoIdle
NextClick == Click
SpecClick == InitClick /\ [][NextClick]_vars

InitGeo == GeoInit /\ ZipIdle /\ PageIdle /\ DistIdle /\ WalkIdle
NextGeo == Tick \/ GeoBegin \/ GeoParse
SpecGeo == InitGeo /\ [][NextGeo]_vars

-----------------------------------------------------------------------------
(* Properties of click_next_button and scrape_all_pages (Spec)             *)

\* C1: when every attempt of a click_next_button call was a click that left
\* the url unchanged or off the site, the call fails for good after exactly
\* max_retries (5) activations of the next-control.
C1_FailsAfterMaxRetriesClicks ==
    (pc = "failed" /\ error = "MaxRetries" /\ clicks = attempts)
        => clicks = DefaultMaxRetries

\* C2: an attempt k <= max_retries after which the url is another url of the
\* site makes click_next_button return, whatever went before, and the caller
\* then adds exactly one to the page index and goes on with the next page.
C2_UrlChangeReturnsAndAdvances ==
    [][(/\ pc = "click"
        /\ attempts' <= DefaultMaxRetries
        /\ url' # url
        /\ Netloc(url') = RootUrl)
          => (/\ pc' = "page"
              /\ error' = "none"
              /\ current_page' = current_page + 1)]_vars

\* the second page is reached by a click that worked on the third attempt,
\* after a timeout or a click without effect
C2_Witness ==
    /\ pc = "page" /\ current_page = 1 /\ url = [netloc |-> RootUrl, page |-> 2]
    /\ attempts = 3 /\ clicks < attempts

\* C8: in debug mode exactly one page is extracted, click_next_button is never
\* called, and the loop is left after the first page, also when that page has
\* a next-control.
C8_DebugStopsAfterFirstPage ==
    debug_mode =>
        /\ pc # "click" /\ attempts = 0 /\ clicks = 0
        /\ pages_scraped <= 1
        /\ current_page = 0
        /\ pages_scraped = 1 => pc \in {"done", "stored"}
        /\ pc \in {"done", "stored"} => pages_scraped = 1

C8_Witness ==
    /\ debug_mode /\ pc = "done" /\ dom.next_button /\ pages_scraped = 1

\* the driver finds no ad element with text on the page
NoAdsOn(d) == \A i \in 1..Len(d.ads) : ~d.ads[i].text

\* C9: when the extraction of a page fails, scrape_all_pages ends at once with
\* that failure: nothing is extracted again, no click and no navigation
\* follows, and the loop is never left as done.
C9_ExtractionFailureAborts ==
    [][/\ pc # "failed"
       /\ (pc = "page" /\ NoAdsOn(dom))
            => (/\ pc' = "failed" /\ error' = "RuntimeError"
                /\ url' = url /\ dom' = dom
                /\ attempts' = attempts /\ clicks' = clicks
                /\ pages_scraped' = pages_scraped /\ all_results' = all_results
                /\ files' = files /\ dataset' = dataset /\ cache' = cache)]_vars

\* the extraction failed on the second page, after the first was extracted
C9_Witness ==
    /\ pc = "failed" /\ error = "RuntimeError"
    /\ pages_scraped = 1 /\ current_page = 1 /\ NoAdsOn(dom)

NoDuplicateKeys(rows) ==
    \A i \in 1..Len(rows), j \in 1..Len(rows) :
        RelCols(rows[i]) = RelCols(rows[j]) => i = j

\* C10: after every append to scrape_data.csv, also the one that creates the
\* file, no two rows of the file have the same (ad_title, price, ad_url,
\* website).
C10_DatasetHasNoDuplicates ==
    pc = "stored" => NoDuplicateKeys(read_csv(dataset.rows))

-----------------------------------------------------------------------------
(* Properties of scrape_page (SpecPage)                                    *)

\* C5: scrape_page raises, or returns a result in which the requested fields
\* all have one and the same length.
C5_EqualLengthsOrRaises ==
    pg_pc = "done" =>
        \/ pg_out.raised # "none"
        \/ /\ DOMAIN pg_out.result = pg_mapping
           /\ Cardinality(ColumnLengths(pg_out.result)) = 1

\* two ad elements, one without a title sub-element: a column of None next to
\* a column of texts
C5_Witness ==
    /\ pg_pc = "done" /\ pg_out.raised = "none" /\ pg_mapping = Fields
    /\ pg_out.result["ad_title"] = <<None, None>>
    /\ pg_out.result["price"] = <<<<PriceText>>, <<PriceText>>>>

-----------------------------------------------------------------------------
(* Properties of extract_zipcode (SpecZip)                                 *)

MaxPad == 2

\* text s holds four digits at i, then j characters of whitespace, then two
\* capital letters
CodeAt(s, i, j) ==
    /\ i >= 1 /\ i + ZipDigits + j + ZipLetters - 1 <= Len(s)
    /\ \A k \in i..(i + ZipDigits - 1) : s[k] \in Digits
    /\ \A k \in (i + ZipDigits)..(i + ZipDigits + j - 1) : s[k] \in Spaces
    /\ \A k \in (i + ZipDigits + j)..(i + ZipDigits + j + ZipLetters - 1) : s[k] \in Uppers

HasCode(s) == \E i \in 1..Len(s), j \in 0..Len(s) : CodeAt(s, i, j)

\* s with the j characters of whitespace of the code at i replaced by k blanks
Repad(s, i, j, k) ==
    SubSeq(s, 1, i + ZipDigits - 1) \o [n \in 1..k |-> " "]
        \o SubSeq(s, i + ZipDigits + j, Len(s))

\* C7: extract_zipcode gives back its own result unchanged; texts that differ
\* only in the amount of whitespace between the four digits and the two letters
\* of a code give the same zipcode; a text without four digits followed by two
\* capital letters gives None.
C7_ZipcodeNormalisation ==
    zpc = "done" =>
        /\ zout # None => extract_zipcode(zout) = zout
        /\ \A i \in 1..Len(zin), j \in 0..Len(zin) :
              CodeAt(zin, i, j) =>
                  \A k \in 0..MaxPad : extract_zipcode(Repad(zin, i, j, k)) = zout
        /\ HasCode(zin) <=> zout # None

\* a code written with whitespace in it, normalised to the six characters
C7_Witness ==
    /\ zpc = "done"
    /\ zin = <<"1", "2", "1", "2", " ", "A", "A">>
    /\ zout = <<"1", "2", "1", "2", "A", "A">>

-----------------------------------------------------------------------------
(* Properties of calculate_distance_addrs (SpecDist)                       *)

\* caller p has just entered a call that uses the cache file
EntersCachedCall(p) == ncalls' = ncalls + 1 /\ call'[p].cached

\* the call caller p has just entered took distance d from the cache
ReturnsFromCache(p, d) ==
    /\ call'[p].pc = "done"
    /\ call'[p].result = <<d>>
    /\ call'[p].geocoded = 0
    /\ written' = written

\* C3: once a call for (A, B) has written distance d to the cache, every later
\* call for (A, B) and for (B, A) with that cache returns d without a geocoder
\* call.
C3_CachedPairEitherOrder ==
    [][EntersCachedCall(Writer) =>
          \A w \in written :
              (\/ (call'[Writer].arg1 = w[1] /\ call'[Writer].arg2 = w[2])
               \/ (call'[Writer].arg1 = w[2] /\ call'[Writer].arg2 = w[1]))
                  => ReturnsFromCache(Writer, w[3])]_vars

\* a call for (B, A) was answered from the row written for (A, B)
C3_Witness ==
    \E w \in written :
        /\ w[1] # w[2]
        /\ call[Writer].pc = "done" /\ call[Writer].cached
        /\ call[Writer].arg1 = w[2] /\ call[Writer].arg2 = w[1]
        /\ call[Writer].geocoded = 0 /\ call[Writer].result = <<w[3]>>

\* C4: when the geocoder resolves neither or only one of the two addresses the
\* call returns None, with and without a cache, and no step of the call adds a
\* row to the cache file (a first call with a cache creates the file, empty).
C4_UnresolvedReturnsNone ==
    [][/\ ncalls' = ncalls + 1 => cache'.rows = cache.rows
       /\ (/\ call[Writer].pc = "resolve"
           /\ call'[Writer].pc # "resolve"
           /\ (call'[Writer].addr1_geo = None \/ call'[Writer].addr2_geo = None))
            => (/\ call'[Writer].pc = "done"
                /\ call'[Writer].result = None
                /\ cache' = cache)]_vars

\* only the second address was not resolved, in a call with a cache that holds
\* a row already
C4_Witness ==
    /\ call[Writer].pc = "done" /\ call[Writer].cached
    /\ call[Writer].geocoded = 2 /\ call[Writer].result = None
    /\ call[Writer].addr1_geo # None /\ call[Writer].addr2_geo = None
    /\ Len(cache.rows) = 1

\* the zipcodes text s holds, whitespace removed
ZipcodesIn(s) ==
    {StripSpaces(SubSeq(s, i, i + ZipDigits + j + ZipLetters - 1)) :
        <<i, j>> \in {ij \in (1..Len(s)) \X (0..Len(s)) : CodeAt(s, ij[1], ij[2])}}

\* the first zipcode text s holds, whitespace removed; None if it holds none
FirstZipcodeIn(s) ==
    IF ~HasCode(s) THEN None
    ELSE LET i == CHOOSE n \in 1..Len(s) :
                    /\ \E j \in 0..Len(s) : CodeAt(s, n, j)
                    /\ \A m \in 1..(n - 1) : ~\E j \in 0..Len(s) : CodeAt(s, m, j)
             j == CHOOSE n \in 0..Len(s) : CodeAt(s, i, n)
         IN  StripSpaces(SubSeq(s, i, i + ZipDigits + j + ZipLetters - 1))

\* C6 as stated: after the call for (X, A) is cached, a call for (X, A') where
\* A' holds the same zipcode as A is answered from the cache.
C6_SameZipcodeIsCacheHit ==
    [][EntersCachedCall(Writer) =>
          \A w \in written :
              (/\ call'[Writer].arg1 = w[1]
               /\ ZipcodesIn(call'[Writer].arg2) \cap ZipcodesIn(w[2]) # {})
                  => ReturnsFromCache(Writer, w[3])]_vars

\* C6 as amended: after the call for (X, A) is cached, a call for (X, A') where
\* the first zipcode in A' is the first zipcode in A is answered from the
\* cache: the same distance, no geocoder call.
C6_SameFirstZipcodeIsCacheHit ==
    [][EntersCachedCall(Writer) =>
          \A w \in written :
              (/\ call'[Writer].arg1 = w[1]
               /\ FirstZipcodeIn(w[2]) # None
               /\ FirstZipcodeIn(call'[Writer].arg2) = FirstZipcodeIn(w[2]))
                  => ReturnsFromCache(Writer, w[3])]_vars

\* the row written for the bare zipcode answered the call for the address that
\* has whitespace in the zipcode and text after it
C6_Witness ==
    \E w \in written :
        /\ w[2] = AddrZip1
        /\ call[Writer].pc = "done" /\ call[Writer].cached
        /\ call[Writer].arg1 = w[1] /\ call[Writer].arg2 = AddrZip1Text
        /\ call[Writer].geocoded = 0 /\ call[Writer].result = <<w[3]>>

-----------------------------------------------------------------------------
(* Properties of the geocoder requests in time (SpecGeo)                   *)

\* C11: any two consecutive geocoder requests of the program are at least one
\* second apart, the two of one calculate_distance_addrs call as well as those
\* of successive calls.
C11_GeocoderCallsOneSecondApart ==
    \A i \in 1..(Len(sent) - 1) :
        sent[i + 1] - sent[i] >= min_delay_seconds * TicksPerSecond

-----------------------------------------------------------------------------
(* More properties of calculate_distance_addrs (SpecDist)                  *)

\* C12: the cache file is append-only. No step of a call removes, changes or
\* reorders a row; the lookup adds none, so a call answered from the cache
\* adds none; the rest of the call adds one row at the end when both
\* addresses were resolved, and none when the call returns None.
C12_CacheAppendOnly ==
    [][/\ cache.exists => cache'.exists
       /\ Len(cache'.rows) >= Len(cache.rows)
       /\ SubSeq(cache'.rows, 1, Len(cache.rows)) = cache.rows
       /\ Len(cache'.rows) <= Len(cache.rows) + 1
       /\ ncalls' = ncalls + 1 => cache'.rows = cache.rows
       /\ (call'[Writer].pc = "done" /\ call'[Writer].result = None)
            => cache'.rows = cache.rows
       /\ cache'.rows # cache.rows
            => (/\ call[Writer].pc = "resolve" /\ call'[Writer].pc = "done"
                /\ call'[Writer].cached /\ call'[Writer].geocoded = 2
                /\ call'[Writer].result # None)]_vars

\* a second call has added its row behind the row of the first
C12_Witness ==
    /\ Len(cache.rows) = 2 /\ cache.rows[1] # cache.rows[2]
    /\ call[Writer].pc = "done" /\ call[Writer].result # None
    /\ ncalls = 2

-----------------------------------------------------------------------------
(* Termination of scrape_all_pages (SpecLive)                              *)

\* the loop of scrape_all_pages has been left, or an exception has ended it
WalkEnded == pc \in {"done", "stored", "failed"}

\* C13: on a site of finitely many result pages whose last page has no
\* next-control, scrape_all_pages ends under every pattern of click outcomes:
\* the loop is left with the accumulated result, or an exception ends the
\* walk; and a click_next_button call makes a bounded number of attempts.
C13_WalkTerminates ==
    /\ <>WalkEnded
    /\ [](attempts <= DefaultMaxRetries + 1)

\* the loop was left on the second page, reached by a click that needed more
\* than one attempt
C13_Witness ==
    /\ pc = "done" /\ pages_scraped = 2 /\ current_page = 1 /\ attempts >= 2

-----------------------------------------------------------------------------
(* More properties of scrape_all_pages (Spec)                              *)

\* the number of ad elements read on the pages scraped so far
RECURSIVE TotalAds(_)
TotalAds(pages) ==
    IF pages = <<>> THEN 0
    ELSE TotalAds(SubSeq(pages, 1, Len(pages) - 1)) + Len(pages[Len(pages)])

\* the values of field f on the pages scraped so far, page after page
RECURSIVE ColumnOver(_, _)
ColumnOver(pages, f) ==
    IF pages = <<>> THEN <<>>
    ELSE ColumnOver(SubSeq(pages, 1, Len(pages) - 1), f)
            \o FieldColumn(pages[Len(pages)], f)

\* C14: after every page cycle each field of all_results has one and the same
\* length, the number of listings extracted on all pages so far, and holds
\* the values of the pages in the order the pages were visited.
C14_AccumulatedInPageOrder ==
    pages_scraped >= 1 =>
        /\ Len(extracted) = pages_scraped
        /\ DOMAIN all_results = Fields
        /\ \A f \in Fields :
              /\ Len(all_results[f]) = TotalAds(extracted)
              /\ all_results[f] = ColumnOver(extracted, f)

\* two pages, a different listing on each, accumulated in page order
C14_Witness ==
    /\ pc = "done" /\ pages_scraped = 2
    /\ all_results["ad_title"] = <<<<TitleA>>, <<TitleB>>>>
    /\ all_results["price"] = <<<<PriceText>>, None>>

\* C15: an attempt in which the next-control was clicked is treated as failed
\* (retried, or fatal when no retry is left) exactly when the url after the
\* wait is the url before the click or is on another netloc than root_url;
\* a change to another url on root_url is accepted and the walk goes on.
C15_ClickFailsIffSameOrOffSite ==
    [][(pc = "click" /\ clicks' = clicks + 1) =>
          /\ (url' = url \/ Netloc(url') # RootUrl)
                => \/ pc' = "click" /\ current_retry' = current_retry + 1
                                    /\ current_page' = current_page
                   \/ pc' = "failed" /\ error' = "MaxRetries"
          /\ (url' # url /\ Netloc(url') = RootUrl)
                => /\ pc' = "page" /\ error' = "none"
                   /\ current_page' = current_page + 1]_vars

\* a click that led off the site was treated as failed and is being retried
C15_Witness ==
    /\ pc = "click" /\ Netloc(url) = OtherUrl
    /\ clicks = 1 /\ attempts = 1 /\ current_retry = 1

-----------------------------------------------------------------------------
(* Two concurrent callers of calculate_distance_addrs (SpecRace)           *)

\* the rows of the cache whose route is the pair a, b in either order
RowsOfPair(a, b) == Len(RelRows(cache.rows, a, b))

\* C16: the read and the append of a call are two steps. A process that missed
\* the cache and resolved both addresses appends its row whatever the file
\* holds by then, so that two processes that both missed the cache for one
\* pair, as (A, B) and (B, A) or both as (A, B), leave two rows for it.
C16_AppendsWithoutLookingAgain ==
    [][\A p \in Callers :
          (/\ call[p].pc = "resolve" /\ call[p].cached
           /\ call'[p].pc = "done" /\ call'[p].result # None)
            => cache'.rows =
                 Append(cache.rows,
                        [route |-> TupleStr(call[p].addr1, call[p].addr2),
                         distance |-> call'[p].result[1]])]_vars

\* both processes missed the cache, one for (A, B) and one for (B, A), and
\* the file holds a row of each
C16_Witness ==
    /\ call["w1"].pc = "done" /\ call["w2"].pc = "done"
    /\ call["w1"].geocoded = 2 /\ call["w2"].geocoded = 2
    /\ call["w1"].addr1 = call["w2"].addr2 /\ call["w1"].addr2 = call["w2"].addr1
    /\ call["w1"].addr1 # call["w1"].addr2
    /\ Len(cache.rows) = 2
    /\ RowsOfPair(call["w1"].addr1, call["w1"].addr2) = 2

\* the same with both processes calling for (A, B)
C16_WitnessSameOrder ==
    /\ call["w1"].pc = "done" /\ call["w2"].pc = "done"
    /\ call["w1"].geocoded = 2 /\ call["w2"].geocoded = 2
    /\ call["w1"].addr1 = call["w2"].addr1 /\ call["w1"].addr2 = call["w2"].addr2
    /\ call["w1"].addr1 # call["w1"].addr2
    /\ Len(cache.rows) = 2 /\ cache.rows[1].route = cache.rows[2].route

-----------------------------------------------------------------------------
(* What calculate_distance_addrs writes to the cache (SpecDist)            *)

\* the row a step has added to the cache file
NewRow == cache'.rows[Len(cache'.rows)]

\* address a with its first zipcode put in its place, if it holds one
Normalized(a) == IF FirstZipcodeIn(a) # None THEN FirstZipcodeIn(a) ELSE a

\* C17 as stated: the row appended on a miss holds the pair of addresses as
\* they were passed to the call, not the pair the lookup compared.
C17_StoresLiteralPair ==
    [][cache'.rows # cache.rows
          => NewRow.route = TupleStr(call'[Writer].arg1, call'[Writer].arg2)]_vars

\* C17 as amended: the zipcode substitution is made before the lookup, and the
\* row appended on a miss holds the pair after the substitution, which is the
\* pair the lookup of that call compared.
C17_StoresNormalizedPair ==
    [][/\ ncalls' = ncalls + 1
            => /\ call'[Writer].addr1 = Normalized(call'[Writer].arg1)
               /\ call'[Writer].addr2 = Normalized(call'[Writer].arg2)
               /\ (call'[Writer].cached /\ call'[Writer].pc = "resolve")
                     => ~CacheHit(cache', call'[Writer].addr1, call'[Writer].addr2)
       /\ cache'.rows # cache.rows
            => /\ NewRow.route = TupleStr(Normalized(call'[Writer].arg1),
                                          Normalized(call'[Writer].arg2))
               /\ NewRow.route = TupleStr(call[Writer].addr1, call[Writer].addr2)]_vars

\* the call for an address with a zipcode in it has written the bare zipcode
C17_Witness ==
    /\ call[Writer].pc = "done" /\ call[Writer].cached /\ call[Writer].geocoded = 2
    /\ call[Writer].arg1 = AddrStation /\ call[Writer].arg2 = AddrZip1Text
    /\ Len(cache.rows) = 1
    /\ cache.rows[1].route = TupleStr(AddrStation, AddrZip1)

-----------------------------------------------------------------------------
(* click_next_button with the caller's parameters (SpecClick)              *)

\* C18: the max_retries and wait_time a caller passes to click_next_button
\* are those of every attempt of the call: the number of attempts before the
\* final failure follows from the caller's max_retries, and the wait of every
\* attempt is the caller's wait_time.
C18_CallerParametersStayInForce ==
    /\ pc = "click" => (max_retries = call_max_retries /\ wait_time = call_wait_time)
    /\ (pc = "failed" /\ error = "MaxRetries") => attempts <= call_max_retries + 1

-----------------------------------------------------------------------------
(* What a scrape leaves on disk (Spec)                                     *)

-----------------------------------------------------------------------------
(* One row per pair in the cache of a single writer (SpecDist)             *)

\* the addresses of the pool after the zipcode substitution
NormalizedPool == {Normalized(a) : a \in AddrPool}

\* for every pair of normalized addresses, its route in the two orders
PairRoutes ==
    {<<TupleStr(a, b), TupleStr(b, a)>> : a \in NormalizedPool, b \in NormalizedPool}

\* C20: with a single writer that starts without a cache file, the file never
\* holds two rows of the same pair of normalized addresses, in the same or in
\* the opposite order.
C20_OneRowPerUnorderedPair ==
    /\ \A i \in 1..Len(cache.rows) :
          \E pr \in PairRoutes : cache.rows[i].route = pr[1]
    /\ \A i \in 1..Len(cache.rows), j \in 1..Len(cache.rows) :
          i < j =>
              \A pr \in PairRoutes :
                  cache.rows[i].route = pr[1]
                      => (cache.rows[j].route # pr[1] /\ cache.rows[j].route # pr[2])

\* the second call asked for the pair of the first in the opposite order and
\* added no row
C20_Witness ==
    /\ ncalls = 2 /\ Len(cache.rows) = 1
    /\ call[Writer].pc = "done" /\ call[Writer].cached /\ call[Writer].geocoded = 0
    /\ call[Writer].addr1 # call[Writer].addr2
    /\ cache.rows[1].route = TupleStr(call[Writer].addr2, call[Writer].addr1)

-----------------------------------------------------------------------------
(* A missing sub-element in scrape_page (SpecPage)                         *)

\* the listings of the page: the ad elements with text
Listings == SelectSeq(pg_dom, LAMBDA el : el.text)

\* the selector of field f finds no sub-element in some listing of the page
MissingSomewhere(f) == \E i \in 1..Len(Listings) : Listings[i].sub[f] = None

\* C21: when the selector of a requested field finds no sub-element in at
\* least one listing of the page, scrape_page does not raise: that field is
\* None for every listing of the page, also for those that have the
\* sub-element, as many values as there are listings, and the fields found in
\* every listing hold the listings' values.
C21_MissingFieldIsNoneForAll ==
    pg_pc = "done" =>
        \A f \in pg_mapping :
            MissingSomewhere(f) =>
                /\ pg_out.raised = "none"
                /\ Len(pg_out.result[f]) = Len(Listings)
                /\ \A i \in 1..Len(Listings) : pg_out.result[f][i] = None
                /\ \A g \in pg_mapping :
                      ~MissingSomewhere(g) =>
                          /\ Len(pg_out.result[g]) = Len(Listings)
                          /\ \A i \in 1..Len(Listings) :
                                pg_out.result[g][i] = Listings[i].sub[g]

\* two listings, the second without a title: the title of the first is
\* given up too, the prices are kept
C21_Witness ==
    /\ pg_pc = "done" /\ pg_out.raised = "none" /\ pg_mapping = Fields
    /\ Len(pg_dom) = 2 /\ pg_dom[1].text /\ pg_dom[2].text
    /\ pg_dom[1].sub["ad_title"] = <<TitleA>> /\ pg_dom[2].sub["ad_title"] = None
    /\ pg_out.result["ad_title"] = <<None, None>>
    /\ pg_out.result["price"] = <<<<PriceText>>, <<PriceText>>>>

====
